---- MODULE Spec2Model ----
(***************************************************************************)
(* Plugin execution sandbox of remainders (src/lib/plugin-system.ts) and   *)
(* the code paths that feed it (the plugin editor's handleSave, the seeded *)
(* example plugins).                                                       *)
(*                                                                         *)
(* JavaScript is single threaded: code runs to completion between two      *)
(* suspension points, a timer callback runs only when nothing else is      *)
(* runnable, and a synchronous loop blocks the event loop.  The actions    *)
(* below are exactly those run-to-completion segments.                     *)
(*                                                                         *)
(* Time is in milliseconds.  Plugin source texts are sequences of lexemes  *)
(* (maximal identifier runs, single punctuation marks, whitespace runs).   *)
(***************************************************************************)
EXTENDS Integers, Sequences, FiniteSets, TLC

VARIABLES
    store,               \* Firestore 'plugins' collection: id -> stored code
    plugins,             \* processPlugins' argument: the PluginConfig list
    pluginDefinitions,   \* processPlugins' argument: id -> code
    pc,                  \* where processPlugins stands
    i,                   \* index of the config the for loop is at
    context,             \* the context object built for config i (line 265)
    settings,            \* the settings object of each PluginConfig
    dateObj,             \* the Date object baseContext.currentDate refers to
    caps,                \* the objects ALLOWED_GLOBALS refers to
    calculationResults,  \* Map, as the sequence of its entries in insertion order
    renderResults,
    errors,
    invs,                \* the executor invocations started so far, in order
    timers,              \* pending setTimeout callbacks, in registration order
    now,                 \* wall clock
    spin,                \* timeout periods gone by while the event loop is blocked
    vin,                 \* validatePluginCode: the text it is applied to
    vout,                \* validatePluginCode: what it returned
    merged,              \* what mergePluginResults returned to processPlugins' caller
    cin,                 \* createPluginContext: its arguments
    cout                 \* createPluginContext: what the call gave

vars == <<store, plugins, pluginDefinitions, pc, i, context, settings, dateObj,
          caps, calculationResults, renderResults, errors, invs, timers, now,
          spin, vin, vout, merged, cin, cout>>

(***************************************************************************)
(* Bounds of the model.                                                    *)
(***************************************************************************)
\* Longest PluginConfig list handed to processPlugins.
MaxConfigs == 2
\* Longest lexeme sequence validatePluginCode is applied to on its own.
MaxLexemes == 3
\* How many timeout periods the clock is followed while a plugin loop blocks
\* the event loop.
MaxSpin == 2
\* Longest PluginConfig list in the runs that are about the order of a batch.
MaxBatch == 3

(***************************************************************************)
(* Program constants.                                                      *)
(***************************************************************************)
PLUGIN_TIMEOUT_MS == 500
MaxCodeLength == 50000

(***************************************************************************)
(* validatePluginCode (src/lib/plugin-system.ts:199-236).                  *)
(*                                                                         *)
(* A text is a sequence of lexemes.  The regular expressions of            *)
(* dangerousPatterns are matched as the engine matches them on the         *)
(* characters: \s* is any run of whitespace lexemes, \s+ at least one.     *)
(* No lexeme below holds a word of a pattern as a proper part, except      *)
(* globalThis, where the character after "global" is not the dot that      *)
(* the pattern asks for; so a pattern's word matches whole lexemes only.   *)
(* The substring test of line 228 does match the head of a longer name.    *)
(***************************************************************************)
Whitespace == {" ", "\n"}

\* The lexemes the texts of the model are made of.
Lexemes ==
    {"eval", "EVAL", "Function", "function", "import", "require", "process",
     "global", "globalThis", "fetch", "XMLHttpRequest", "__dirname",
     "__filename", "calculate", "render", "ctx", "return", "throw", "async",
     "await", "while", "setTimeout", "Promise", "Math", "null", "new", "Error",
     "calculateTotal",
     "(", ")", ".", "[", "]", "{", "}", "=", "=>", ";", "/*50KB*/"}
        \cup Whitespace

\* String.prototype.toLowerCase on one lexeme (the i flag of the patterns).
Lower(l) ==
    CASE l = "EVAL" -> "eval"
      [] l = "Function" -> "function"
      [] l = "XMLHttpRequest" -> "xmlhttprequest"
      [] l = "globalThis" -> "globalthis"
      [] l = "setTimeout" -> "settimeout"
      [] l = "Promise" -> "promise"
      [] l = "Math" -> "math"
      [] l = "Error" -> "error"
      [] l = "calculateTotal" -> "calculatetotal"
      [] OTHER -> l

\* code.length: the lexeme "/*50KB*/" stands for a comment of 50,000 characters.
RECURSIVE CodeLength(_)
CodeLength(code) ==
    IF code = <<>> THEN 0
    ELSE (IF Head(code) = "/*50KB*/" THEN MaxCodeLength ELSE Len(Head(code)))
         + CodeLength(Tail(code))

\* The table of line 203-214, in its order.  kind is the shape of the
\* regular expression after the word: "call" is \s*\(, "space" is \s+,
\* "dot" is \., "bare" is nothing.
dangerousPatterns ==
    << [word |-> "eval", kind |-> "call", message |-> "eval() is not allowed"],
       [word |-> "function", kind |-> "call",
        message |-> "Function constructor is not allowed"],
       [word |-> "import", kind |-> "space",
        message |-> "import statements are not allowed"],
       [word |-> "require", kind |-> "call", message |-> "require() is not allowed"],
       [word |-> "process", kind |-> "dot", message |-> "process access is not allowed"],
       [word |-> "global", kind |-> "dot", message |-> "global access is not allowed"],
       [word |-> "fetch", kind |-> "call", message |-> "fetch() is not allowed"],
       [word |-> "xmlhttprequest", kind |-> "bare",
        message |-> "XMLHttpRequest is not allowed"],
       [word |-> "__dirname", kind |-> "bare", message |-> "__dirname is not allowed"],
       [word |-> "__filename", kind |-> "bare", message |-> "__filename is not allowed"] >>

\* pattern.test(code) for one entry of the table; every call builds the
\* regular expressions anew, so lastIndex is 0.
PatternTest(p, code) ==
    \E a \in 1..Len(code) :
        /\ Lower(code[a]) = p.word
        /\ CASE p.kind = "call" ->
                  \E b \in (a + 1)..Len(code) :
                      /\ code[b] = "("
                      /\ \A m \in (a + 1)..(b - 1) : code[m] \in Whitespace
             [] p.kind = "space" -> a < Len(code) /\ code[a + 1] \in Whitespace
             [] p.kind = "dot" -> a < Len(code) /\ code[a + 1] = "."
             [] OTHER -> TRUE

\* Lexeme l begins with the characters of name.
StartsWith(l, name) == l = name \/ (name = "calculate" /\ l = "calculateTotal")

\* code.includes('function ' + name): case-sensitive, exactly one space,
\* and whatever follows the name.
IncludesFunction(code, name) ==
    \E a \in 1..(Len(code) - 2) :
        code[a] = "function" /\ code[a + 1] = " " /\ StartsWith(code[a + 2], name)

\* validatePluginCode with `>=` written for `>` at line 223.
validatePluginCodeOffByOne(code) ==
    LET hits == SelectSeq(dangerousPatterns, LAMBDA p : PatternTest(p, code))
        e1 == [k \in 1..Len(hits) |-> hits[k].message]
        e2 == IF CodeLength(code) >= MaxCodeLength
              THEN <<"Plugin code exceeds maximum length (50KB)">> ELSE <<>>
        e3 == IF ~IncludesFunction(code, "calculate") /\ ~IncludesFunction(code, "render")
              THEN <<"Plugin must define at least calculate() or render() function">>
              ELSE <<>>
        errs == e1 \o e2 \o e3
    IN  [valid |-> Len(errs) = 0, errors |-> errs]

validatePluginCode(code) ==
    LET hits == SelectSeq(dangerousPatterns, LAMBDA p : PatternTest(p, code))
        e1 == [k \in 1..Len(hits) |-> hits[k].message]
        e2 == IF CodeLength(code) > MaxCodeLength
              THEN <<"Plugin code exceeds maximum length (50KB)">> ELSE <<>>
        e3 == IF ~IncludesFunction(code, "calculate") /\ ~IncludesFunction(code, "render")
              THEN <<"Plugin must define at least calculate() or render() function">>
              ELSE <<>>
        errs == e1 \o e2 \o e3
    IN  [valid |-> Len(errs) = 0, errors |-> errs]

NoResult == [valid |-> FALSE, errors |-> <<"(not called)">>]

(***************************************************************************)
(* JavaScript values, as far as the sandbox tells them apart.              *)
(***************************************************************************)
\* A thrown value: its type and what reading its .message property gives
\* ("" when the property is absent or empty: both are falsy in `||`).
ErrorValue(m) == [type |-> "Error", message |-> m]
ThrownString == [type |-> "string", message |-> ""]        \* throw 'oops'
ThrownObject == [type |-> "object", message |-> ""]        \* throw {}
ThrownNull == [type |-> "null", message |-> ""]            \* throw null
ThrownUndefined == [type |-> "undefined", message |-> ""]  \* throw undefined
NotThrown == [type |-> "none", message |-> ""]

\* What a plugin reads of its surroundings and hands back as its data bag.
NoData == [w |-> -1, s |-> "-", d |-> "-", c |-> "-"]
Snapshot(h) == [w |-> h.ctx.width, s |-> h.settings, d |-> h.date, c |-> h.caps]
\* The data bag 0 (the number), written in the shape of the other bags.
ZeroData == [w |-> 0, s |-> "0", d |-> "0", c |-> "0"]
\* `if (result.data)`: an absent bag and the bag 0 are falsy.
DataTruthy(d) == d \notin {NoData, ZeroData}

\* A value returned by an entry point.
Undefined == [type |-> "undefined", currentDate |-> "none", data |-> NoData, elems |-> <<>>]
Null == [type |-> "null", currentDate |-> "none", data |-> NoData, elems |-> <<>>]
Number42 == [type |-> "number", currentDate |-> "none", data |-> NoData, elems |-> <<>>]

\* The number 0.
Number0 == [type |-> "number 0", currentDate |-> "none", data |-> NoData, elems |-> <<>>]

\* `if (v)`: undefined, null and 0 are the falsy values among the above.
Truthy(v) == v.type \notin {"undefined", "null", "number 0"}

(***************************************************************************)
(* The scope plugin code runs in.  new Function(...) creates a function    *)
(* whose body sees its parameters (line 92-100) and, behind them, the      *)
(* global scope of the host: the Function constructor closes over nothing  *)
(* else.                                                                   *)
(***************************************************************************)
\* The parameter names of pluginFunction (line 92-100, 149-157).
FunctionParameters ==
    {"context", "Math", "Date", "JSON", "String", "Number", "Array", "Object", "console"}

\* Names the host's global object defines besides the allowlisted ones.
HostGlobals ==
    {"globalThis", "setTimeout", "Promise", "fetch", "process", "eval", "Function"}

\* Identifier resolution inside the body of pluginFunction.
Resolve(name) ==
    IF name \in FunctionParameters THEN "parameter"
    ELSE IF name \in HostGlobals THEN "global"
    ELSE "unresolvable"

(***************************************************************************)
(* Plugin sources.  Each is a concrete JavaScript text: its lexemes (what  *)
(* validatePluginCode reads), whether it parses, its top-level statements  *)
(* and the bodies of calculate and render as sequences of steps.           *)
(***************************************************************************)
Ref(n) == [op |-> "ref", name |-> n, d |-> 0]      \* evaluate identifier n
Mut(t) == [op |-> "mut", name |-> t, d |-> 0]      \* write through a reference
Busy(d) == [op |-> "busy", name |-> "", d |-> d]   \* compute for d ms
Sleep(d) == [op |-> "sleep", name |-> "", d |-> d] \* await new Promise(r => setTimeout(r, d))
Never == [op |-> "never", name |-> "", d |-> 0]    \* await { then() {} }
Loop == [op |-> "loop", name |-> "", d |-> 0]      \* while (true) {}
Return(e) == [op |-> "return", name |-> e, d |-> 0]
Throw(e) == [op |-> "throw", name |-> e, d |-> 0]

Absent == [defined |-> FALSE, ops |-> <<>>]
Fn(ops) == [defined |-> TRUE, ops |-> ops]

Decl(name) == <<"function", " ", name, "(", "ctx", ")", " ", "{">>
BothDecls == Decl("calculate") \o <<"}", "\n">> \o Decl("render") \o <<"}">>

Sources ==
    {"seed", "good", "thrower1", "thrower2", "thrower3", "sleeper", "quick",
     "looper", "busy", "slow", "mutator", "evil", "evil2", "syntaxError",
     "topReturn", "topThrow", "dater1", "dater2", "zeroBag", "rounder",
     "patcher", "helperOnly", "nuller", "zeroer"}

Catalogue(src) ==
    CASE src = "seed" ->
           \* quotesPlugin.execute.toString(): (ctx) => { ... return [...]; }
           [text |-> <<"(", "ctx", ")", " ", "=>", " ", "{", "return", " ", "[", "]", ";", "}">>,
            syntaxOk |-> TRUE, top |-> <<>>, calculate |-> Absent, render |-> Absent]
      [] src = "good" ->
           \* function calculate(ctx) { return { data: {w: ctx.width, s: ctx.settings,
           \*     d: ctx.currentDate.getTime(), c: Math.round(0.5)} } }
           \* function render(ctx) { return [{ type: 'text', x: ctx.width * 0.5,
           \*     y: ctx.height * 0.5, ... }] }
           [text |-> BothDecls, syntaxOk |-> TRUE, top |-> <<>>,
            calculate |-> Fn(<<Return("observation")>>),
            render |-> Fn(<<Return("elements")>>)]
      [] src = "thrower1" ->
           \* calculate: throw new Error('boom')      render: throw 'oops'
           [text |-> BothDecls, syntaxOk |-> TRUE, top |-> <<>>,
            calculate |-> Fn(<<Throw("Error")>>),
            render |-> Fn(<<Throw("string")>>)]
      [] src = "thrower2" ->
           \* calculate: throw null                   render: throw {}
           [text |-> BothDecls, syntaxOk |-> TRUE, top |-> <<>>,
            calculate |-> Fn(<<Throw("null")>>),
            render |-> Fn(<<Throw("object")>>)]
      [] src = "thrower3" ->
           \* calculate: return 42                    render: throw undefined
           [text |-> BothDecls, syntaxOk |-> TRUE, top |-> <<>>,
            calculate |-> Fn(<<Return("number")>>),
            render |-> Fn(<<Throw("undefined")>>)]
      [] src = "sleeper" ->
           \* async function calculate(ctx) {
           \*   await new Promise(r => setTimeout(r, 1000));
           \*   ctx.settings.poisoned = true; Math.round = () => 0;
           \*   return { data: ... } }
           \* function render(ctx) { return [...] }
           [text |-> BothDecls, syntaxOk |-> TRUE, top |-> <<>>,
            calculate |-> Fn(<<Sleep(1000), Mut("settings"), Mut("caps"),
                               Return("observation")>>),
            render |-> Fn(<<Return("elements")>>)]
      [] src = "quick" ->
           \* async calculate: await a 250 ms timer, then return the data bag
           \* async render: await { then() {} }  (never settles)
           [text |-> BothDecls, syntaxOk |-> TRUE, top |-> <<>>,
            calculate |-> Fn(<<Sleep(250), Return("observation")>>),
            render |-> Fn(<<Never, Return("elements")>>)]
      [] src = "looper" ->
           \* calculate: while (true) {}              render: return [...]
           [text |-> BothDecls, syntaxOk |-> TRUE, top |-> <<>>,
            calculate |-> Fn(<<Loop>>),
            render |-> Fn(<<Return("elements")>>)]
      [] src = "busy" ->
           \* calculate: compute for 1000 ms, then return the data bag
           \* render: compute for 1000 ms, then return [...]
           [text |-> BothDecls, syntaxOk |-> TRUE, top |-> <<>>,
            calculate |-> Fn(<<Busy(1000), Return("observation")>>),
            render |-> Fn(<<Busy(1000), Return("elements")>>)]
      [] src = "slow" ->
           \* async calculate: compute for 250 ms, await a 400 ms timer, then
           \*                  return the data bag
           \* render: return [...]
           [text |-> BothDecls, syntaxOk |-> TRUE, top |-> <<>>,
            calculate |-> Fn(<<Busy(250), Sleep(400), Return("observation")>>),
            render |-> Fn(<<Return("elements")>>)]
      [] src = "mutator" ->
           \* calculate: ctx.width = 0; ctx.settings.poisoned = true;
           \*            ctx.currentDate.setTime(0); Math.round = () => 0;
           \*            return { data: ... }
           \* render: return [...]
           [text |-> BothDecls, syntaxOk |-> TRUE, top |-> <<>>,
            calculate |-> Fn(<<Mut("context"), Mut("settings"), Mut("date"),
                               Mut("caps"), Return("observation")>>),
            render |-> Fn(<<Return("elements")>>)]
      [] src = "evil" ->
           \* function calculate(ctx) { process.env; return { data: ... } }
           [text |-> Decl("calculate") \o <<"process", ".", "ctx", ";", "return", "}">>,
            syntaxOk |-> TRUE, top |-> <<>>,
            calculate |-> Fn(<<Ref("process"), Return("observation")>>),
            render |-> Absent]
      [] src = "evil2" ->
           \* function calculate(ctx) { globalThis['process']; fetch; return { data: ... } }
           [text |-> Decl("calculate") \o <<"globalThis", "[", "]", ";", "return", "}">>,
            syntaxOk |-> TRUE, top |-> <<>>,
            calculate |-> Fn(<<Ref("globalThis"), Return("observation")>>),
            render |-> Absent]
      [] src = "topReturn" ->
           \* return { data: ... };      (no function is declared)
           [text |-> <<"return", " ", "{", "}", ";">>,
            syntaxOk |-> TRUE, top |-> <<Return("observation")>>,
            calculate |-> Absent, render |-> Absent]
      [] src = "topThrow" ->
           \* throw new Error('boom');   (no function is declared)
           [text |-> <<"throw", " ", "new", " ", "Error", "(", ")", ";">>,
            syntaxOk |-> TRUE, top |-> <<Throw("Error")>>,
            calculate |-> Absent, render |-> Absent]
      [] src = "dater1" ->
           \* calculate: return { currentDate: new Date(2000, 0, 1), data: ... }
           \* render: return [...]
           [text |-> BothDecls, syntaxOk |-> TRUE, top |-> <<>>,
            calculate |-> Fn(<<Return("date1")>>),
            render |-> Fn(<<Return("elements")>>)]
      [] src = "dater2" ->
           \* calculate: return { currentDate: new Date(2001, 0, 1) }
           \* render: return [...]
           [text |-> BothDecls, syntaxOk |-> TRUE, top |-> <<>>,
            calculate |-> Fn(<<Return("date2")>>),
            render |-> Fn(<<Return("elements")>>)]
      [] src = "zeroBag" ->
           \* calculate: return { data: 0 }       render: return [...]
           [text |-> BothDecls, syntaxOk |-> TRUE, top |-> <<>>,
            calculate |-> Fn(<<Return("zero")>>),
            render |-> Fn(<<Return("elements")>>)]
      [] src = "rounder" ->
           \* calculate: return { data: ... }
           \* render: return [{ type: 'text', x: Math.round(ctx.width * 0.5),
           \*                   y: Math.round(ctx.height * 0.5) }]
           [text |-> BothDecls, syntaxOk |-> TRUE, top |-> <<>>,
            calculate |-> Fn(<<Return("observation")>>),
            render |-> Fn(<<Return("rounded")>>)]
      [] src = "patcher" ->
           \* calculate: Math.round = () => 0; return { data: ... }
           \* render: return [...]
           [text |-> BothDecls, syntaxOk |-> TRUE, top |-> <<>>,
            calculate |-> Fn(<<Mut("caps"), Return("observation")>>),
            render |-> Fn(<<Return("elements")>>)]
      [] src = "nuller" ->
           \* calculate: return null          render: (no return statement)
           [text |-> BothDecls, syntaxOk |-> TRUE, top |-> <<>>,
            calculate |-> Fn(<<Return("null")>>),
            render |-> Fn(<<>>)]
      [] src = "zeroer" ->
           \* calculate: return 0             render: return [...]
           [text |-> BothDecls, syntaxOk |-> TRUE, top |-> <<>>,
            calculate |-> Fn(<<Return("number 0")>>),
            render |-> Fn(<<Return("elements")>>)]
      [] src = "helperOnly" ->
           \* function calculateTotal(ctx) { return }     (no entry point)
           [text |-> Decl("calculateTotal") \o <<"return", "}">>,
            syntaxOk |-> TRUE, top |-> <<>>, calculate |-> Absent, render |-> Absent]
      [] OTHER ->
           \* "syntaxError": function calculate(ctx) { return (
           [text |-> Decl("calculate") \o <<"return", " ", "(">>,
            syntaxOk |-> FALSE, top |-> <<>>, calculate |-> Absent, render |-> Absent]

\* The text after `${pluginCode}` in the function body (line 105-110): the
\* typeof check and the call of the entry point.
MissingEntryMessage(hook) ==
    IF hook = "calculate" THEN "Plugin must export a calculate() function"
    ELSE "Plugin must export a render() function"

\* The statements pluginFunction runs for a source and a hook.
ProgramOf(src, hook) ==
    LET c == Catalogue(src)
        f == IF hook = "calculate" THEN c.calculate ELSE c.render
    IN  c.top \o (IF f.defined THEN f.ops ELSE <<Throw(hook)>>)

(***************************************************************************)
(* Running plugin code.  The heap a body works on: the context object it   *)
(* was handed, and the objects reachable from it or from its parameters.   *)
(***************************************************************************)
BaseWidth == 1170
BaseHeight == 2532

\* A write through one of the references the plugin holds.
Mutate(h, target) ==
    CASE target = "context" -> [h EXCEPT !.ctx.width = 0]       \* ctx.width = 0
      [] target = "settings" -> [h EXCEPT !.settings = "poisoned"]
      [] target = "date" -> [h EXCEPT !.date = "epoch"]         \* currentDate.setTime(0)
      [] OTHER -> [h EXCEPT !.caps = "patched"]                 \* Math.round = ...

\* The value of a return expression.
Eval(e, h) ==
    CASE e = "observation" -> [Undefined EXCEPT !.type = "object", !.data = Snapshot(h)]
      [] e = "elements" ->
           [Undefined EXCEPT !.type = "array",
                             !.elems = << [x |-> h.ctx.width \div 2,
                                           y |-> h.ctx.height \div 2] >>]
      [] e = "number" -> Number42
      [] e = "number 0" -> Number0
      [] e = "rounded" ->
           \* Math.round is the host's, or the function a plugin put in its place
           [Undefined EXCEPT !.type = "array",
                             !.elems = << IF h.caps = "pristine"
                                          THEN [x |-> h.ctx.width \div 2,
                                                y |-> h.ctx.height \div 2]
                                          ELSE [x |-> 0, y |-> 0] >>]
      [] e = "date1" ->
           [Undefined EXCEPT !.type = "object", !.currentDate = "d1",
                             !.data = Snapshot(h)]
      [] e = "date2" -> [Undefined EXCEPT !.type = "object", !.currentDate = "d2"]
      [] e = "zero" -> [Undefined EXCEPT !.type = "object", !.data = ZeroData]
      [] e = "null" -> Null
      [] OTHER -> Undefined

\* The value of a throw expression.
ThrownOf(e) ==
    CASE e = "Error" -> ErrorValue("boom")
      [] e = "string" -> ThrownString
      [] e = "object" -> ThrownObject
      [] e = "null" -> ThrownNull
      [] e = "undefined" -> ThrownUndefined
      [] OTHER -> ErrorValue(MissingEntryMessage(e))

\* How a run of statements ended.
Ended(s, p, how) == [s EXCEPT !.p = p, !.end = how]

\* Run the statements ops from position p until the body suspends, returns,
\* throws or loops.  s carries the heap h, the clock t and the names the
\* code resolved.
RECURSIVE Run(_, _, _)
Run(ops, p, s) ==
    IF p > Len(ops) THEN [Ended(s, p, "return") EXCEPT !.value = Undefined]
    ELSE
      LET o == ops[p] IN
      CASE o.op = "ref" ->
             IF Resolve(o.name) = "unresolvable"
             THEN [Ended(s, p, "throw") EXCEPT !.thrown = ErrorValue("not defined")]
             ELSE Run(ops, p + 1, [s EXCEPT !.names = @ \cup {o.name}])
        [] o.op = "mut" -> Run(ops, p + 1, [s EXCEPT !.h = Mutate(@, o.name)])
        [] o.op = "busy" -> Run(ops, p + 1, [s EXCEPT !.t = @ + o.d])
        [] o.op = "sleep" ->
             IF Resolve("Promise") = "unresolvable" \/ Resolve("setTimeout") = "unresolvable"
             THEN [Ended(s, p, "throw") EXCEPT !.thrown = ErrorValue("not defined")]
             ELSE [Ended(s, p, "await") EXCEPT !.delay = o.d,
                                               !.names = @ \cup {"Promise", "setTimeout"}]
        [] o.op = "never" -> Ended(s, p, "never")
        [] o.op = "loop" -> Ended(s, p, "loop")
        [] o.op = "return" -> [Ended(s, p, "return") EXCEPT !.value = Eval(o.name, s.h)]
        [] OTHER -> [Ended(s, p, "throw") EXCEPT !.thrown = ThrownOf(o.name)]

\* The state a run starts from.
RunState(h, t, names) ==
    [h |-> h, t |-> t, names |-> names, p |-> 0, end |-> "none",
     value |-> Undefined, thrown |-> NotThrown, delay |-> 0]

(***************************************************************************)
(* The executor's try/catch (line 89-136, 146-193).                        *)
(***************************************************************************)
Pending == [kind |-> "pending", result |-> Null, error |-> ""]

\* line 132 / 189 returning { result: null, error: null }
SuccessDropsResult(v) == [kind |-> "returned", result |-> Null, error |-> ""]

\* line 132 / 189: return { result, error: null }
Success(v) == [kind |-> "returned", result |-> v, error |-> ""]

\* line 133-136 / 190-193 returning error.message as it is
CatchBlockRawMessage(x) ==
    IF x.type \in {"null", "undefined"}
    THEN [kind |-> "rejected", result |-> Null, error |-> "TypeError"]
    ELSE [kind |-> "returned", result |-> Null, error |-> x.message]

\* line 133-136 / 190-193: the catch block.  Reading .message of null or
\* undefined throws a TypeError out of the catch block, which rejects the
\* promise the async function returned.
CatchBlock(x) ==
    IF x.type \in {"null", "undefined"}
    THEN [kind |-> "rejected", result |-> Null, error |-> "TypeError"]
    ELSE [kind |-> "returned", result |-> Null,
          error |-> IF x.message # "" THEN x.message ELSE "Plugin execution failed"]

TimeoutError == ErrorValue("Plugin execution timeout")

(***************************************************************************)
(* The data processPlugins works on.                                       *)
(***************************************************************************)
\* Plugins the editor lets its user edit (documents the user authored).
UserPlugins == {"u1", "u2"}
\* Plugins seedExamplePlugins wrote (src/lib/themes.ts:124-160).
SeededPlugins == {"quotes-plugin"}
\* Ids a PluginConfig may name; "ghost" has no definition.
ConfigIds == UserPlugins \cup SeededPlugins \cup {"ghost"}

PluginConfigs == [id : ConfigIds, enabled : BOOLEAN]
ConfigLists == UNION {[1..n -> PluginConfigs] : n \in 0..MaxConfigs}

NoContext == [width |-> -1, height |-> -1]

\* Map.prototype.set on a Map kept as its entries in insertion order: a key
\* already present keeps its place and gets the new value.
MapSet(m, k, v) ==
    IF \E n \in 1..Len(m) : m[n].key = k
    THEN [n \in 1..Len(m) |-> IF m[n].key = k THEN [key |-> k, value |-> v] ELSE m[n]]
    ELSE Append(m, [key |-> k, value |-> v])
MapHas(m, k) == \E n \in 1..Len(m) : m[n].key = k
MapGet(m, k) == m[CHOOSE n \in 1..Len(m) : m[n].key = k].value

\* The heap a body of config k works on.
HeapOf(k) == [ctx |-> context[k], settings |-> settings[k], date |-> dateObj, caps |-> caps]

\* The invocation the for loop is waiting for.
Current == invs[Len(invs)]

(***************************************************************************)
(* createPluginContext (src/lib/plugin-system.ts:37-80).  A Date is the    *)
(* instant it holds and the zone its wall-clock reading was taken in:      *)
(* new Date(date.toLocaleString('en-US', {timeZone})) reads the instant's  *)
(* wall clock in that zone and parses it as local time.                    *)
(***************************************************************************)
\* Zone identifiers Intl accepts; toLocaleString throws a RangeError for any
\* other.
KnownTimeZones == {"UTC", "Asia/Seoul"}
\* What a caller may pass as timezone; "" is the empty string, "(absent)"
\* the argument left out.
TimeZoneArguments == KnownTimeZones \cup {"(absent)", "", "Mars/Phobos", "utc+25"}

NoArguments ==
    [birthDate |-> "-", width |-> 0, height |-> 0, viewMode |-> "-", settings |-> "-",
     timezone |-> "(absent)"]
NotCalled == [called |-> FALSE, threw |-> FALSE, context |-> NoArguments]

\* line 46: new Date()
CurrentTime == [instant |-> "now", zone |-> "local"]

\* line 47-55 without the try: the RangeError leaves the function.
AdjustedDateNoTry(timezone) ==
    IF timezone \in {"(absent)", ""} THEN [threw |-> FALSE, date |-> CurrentTime]
    ELSE IF timezone \in KnownTimeZones
    THEN [threw |-> FALSE, date |-> [instant |-> "now", zone |-> timezone]]
    ELSE [threw |-> TRUE, date |-> CurrentTime]

\* line 47-55: the date the context gets.  threw tells whether an exception
\* left the try block uncaught.
AdjustedDate(timezone) ==
    IF timezone \in {"(absent)", ""} THEN [threw |-> FALSE, date |-> CurrentTime]
    ELSE IF timezone \in KnownTimeZones
    THEN [threw |-> FALSE, date |-> [instant |-> "now", zone |-> timezone]]
    ELSE [threw |-> FALSE, date |-> CurrentTime]      \* RangeError, caught at line 52

\* line 57-79: the object returned.  utils is the three functions of line
\* 64-78, which do not depend on the arguments.
ContextObject(args, date) ==
    [currentDate |-> date, birthDate |-> args.birthDate, width |-> args.width,
     height |-> args.height, viewMode |-> args.viewMode, settings |-> args.settings,
     utils |-> "utils"]

createPluginContext(args) ==
    LET d == AdjustedDate(args.timezone)
    IN  [called |-> TRUE, threw |-> d.threw,
         context |-> IF d.threw THEN NoArguments ELSE ContextObject(args, d.date)]

(***************************************************************************)
(* mergePluginResults (src/lib/plugin-system.ts:293-311).  The dates are   *)
(* references: "baseDate" is the object the caller passed, "d1" and "d2"   *)
(* are Date objects plugins returned.  pluginData is the object built at   *)
(* line 298, as a function from its keys.                                  *)
(***************************************************************************)
\* const pluginData = {}
EmptyObject == [k \in {} |-> NoData]

NotMerged == [called |-> FALSE, currentDate |-> "-", pluginData |-> EmptyObject]

\* pluginData[pluginId] = data
SetKey(obj, key, val) ==
    [k \in DOMAIN obj \cup {key} |-> IF k = key THEN val ELSE obj[k]]

\* line 300-308: the for loop over calculationResults.entries() from entry n
\* on, acc being { currentDate, pluginData } so far.
RECURSIVE MergeLoop(_, _, _)
MergeLoop(results, n, acc) ==
    IF n > Len(results) THEN acc
    ELSE LET pluginId == results[n].key
             result == results[n].value
             a1 == IF result.currentDate # "none"
                   THEN [acc EXCEPT !.currentDate = result.currentDate] ELSE acc
             a2 == IF DataTruthy(result.data)
                   THEN [a1 EXCEPT !.pluginData = SetKey(@, pluginId, result.data)]
                   ELSE a1
         IN  MergeLoop(results, n + 1, a2)

mergePluginResults(baseDate, results) ==
    MergeLoop(results, 1, [called |-> TRUE, currentDate |-> baseDate,
                           pluginData |-> EmptyObject])

Init ==
    /\ store = [id \in UserPlugins \cup SeededPlugins |->
                  IF id \in SeededPlugins THEN "seed" ELSE "good"]
    /\ plugins = <<>>
    /\ pluginDefinitions = store
    /\ pc = "idle"
    /\ i = 0
    /\ context = <<>>
    /\ settings = <<>>
    /\ dateObj = "now"
    /\ caps = "pristine"
    /\ calculationResults = <<>>
    /\ renderResults = <<>>
    /\ errors = <<>>
    /\ invs = <<>>
    /\ timers = <<>>
    /\ now = 0
    /\ spin = 0
    /\ vin = <<>>
    /\ vout = NoResult
    /\ merged = NotMerged
    /\ cin = NoArguments
    /\ cout = NotCalled

(***************************************************************************)
(* handleSave (src/app/plugins/editor/page.tsx:182-229): built-in plugins  *)
(* are refused, `new Function(editedCode)` must parse, then the code is    *)
(* written to the plugin's document.                                       *)
(***************************************************************************)
handleSave(id, editedCode) ==
    /\ pc = "idle"
    /\ id \in UserPlugins
    /\ Catalogue(editedCode).syntaxOk
    /\ store' = [store EXCEPT ![id] = editedCode]
    /\ UNCHANGED <<plugins, pluginDefinitions, pc, i, context, settings, dateObj, caps,
                   calculationResults, renderResults, errors, invs, timers, now,
                   spin, vin, vout, merged, cin, cout>>

(***************************************************************************)
(* processPlugins (src/lib/plugin-system.ts:241-288).                      *)
(***************************************************************************)
\* The call: line 250-252.
processPlugins(cfgs) ==
    /\ pc = "idle"
    /\ plugins' = cfgs
    /\ pluginDefinitions' = store
    /\ settings' = [k \in 1..Len(cfgs) |-> "user"]
    /\ context' = [k \in 1..Len(cfgs) |-> NoContext]
    /\ calculationResults' = <<>>
    /\ renderResults' = <<>>
    /\ errors' = <<>>
    /\ i' = 1
    /\ pc' = "loop"
    /\ UNCHANGED <<store, dateObj, caps, invs, timers, now, spin, vin, vout, merged, cin, cout>>

\* line 256: if (!pluginConfig.enabled) continue;
SkipDisabled ==
    /\ pc = "loop" /\ i <= Len(plugins)
    /\ ~plugins[i].enabled
    /\ i' = i + 1
    /\ UNCHANGED <<store, plugins, pluginDefinitions, pc, context, settings, dateObj, caps,
                   calculationResults, renderResults, errors, invs, timers, now,
                   spin, vin, vout, merged, cin, cout>>

\* line 258-262 with `break` written for `continue`.
DefinitionNotFoundBreaks ==
    /\ pc = "loop" /\ i <= Len(plugins)
    /\ plugins[i].enabled
    /\ plugins[i].id \notin DOMAIN pluginDefinitions
    /\ errors' = MapSet(errors, plugins[i].id, "Plugin definition not found")
    /\ i' = Len(plugins) + 1
    /\ UNCHANGED <<store, plugins, pluginDefinitions, pc, context, settings, dateObj, caps,
                   calculationResults, renderResults, invs, timers, now, spin, vin, vout,
                   merged, cin, cout>>

\* line 258-262
DefinitionNotFound ==
    /\ pc = "loop" /\ i <= Len(plugins)
    /\ plugins[i].enabled
    /\ plugins[i].id \notin DOMAIN pluginDefinitions
    /\ errors' = MapSet(errors, plugins[i].id, "Plugin definition not found")
    /\ i' = i + 1
    /\ UNCHANGED <<store, plugins, pluginDefinitions, pc, context, settings, dateObj, caps,
                   calculationResults, renderResults, invs, timers, now, spin, vin, vout, merged, cin, cout>>

\* line 265-268 reached without the test of line 256.
CreateContextWhateverEnabled ==
    /\ pc = "loop" /\ i <= Len(plugins)
    /\ plugins[i].id \in DOMAIN pluginDefinitions
    /\ context' = [context EXCEPT ![i] = [width |-> BaseWidth, height |-> BaseHeight]]
    /\ pc' = "callCalculate"
    /\ UNCHANGED <<store, plugins, pluginDefinitions, i, settings, dateObj, caps,
                   calculationResults, renderResults, errors, invs, timers, now,
                   spin, vin, vout, merged, cin, cout>>

\* line 265-268: { ...baseContext, settings: pluginConfig.settings }.  The
\* spread copies the fields of baseContext; currentDate and settings stay
\* references to the caller's objects.
CreateContext ==
    /\ pc = "loop" /\ i <= Len(plugins)
    /\ plugins[i].enabled
    /\ plugins[i].id \in DOMAIN pluginDefinitions
    /\ context' = [context EXCEPT ![i] = [width |-> BaseWidth, height |-> BaseHeight]]
    /\ pc' = "callCalculate"
    /\ UNCHANGED <<store, plugins, pluginDefinitions, i, settings, dateObj, caps,
                   calculationResults, renderResults, errors, invs, timers, now,
                   spin, vin, vout, merged, cin, cout>>

\* line 287
ReturnMaps ==
    /\ pc = "loop" /\ i > Len(plugins)
    /\ pc' = "returned"
    /\ UNCHANGED <<store, plugins, pluginDefinitions, i, context, settings, dateObj, caps,
                   calculationResults, renderResults, errors, invs, timers, now,
                   spin, vin, vout, merged, cin, cout>>

(***************************************************************************)
(* executePluginCalculation / executePluginRender                          *)
(* (src/lib/plugin-system.ts:85-137, 142-194): they differ in the entry    *)
(* point only.                                                             *)
(***************************************************************************)
Max(a, b) == IF a >= b THEN a ELSE b

\* What the model keeps of an invocation when it starts.
NewInvocation(hook, src) ==
    [cfg |-> i, hook |-> hook, src |-> src,
     startT |-> now,                    \* when the executor was called
     seen |-> Snapshot(HeapOf(i)),      \* what the context and the capabilities hold
     bpc |-> 0,                         \* the statement the body stands at
     bend |-> "none",                   \* how the body's last run ended
     bdoneT |-> -1,                     \* when the body returned or threw
     outcome |-> Pending,               \* what the executor returned
     retT |-> -1,                       \* when it returned
     thrown |-> NotThrown,              \* what the plugin code threw or rejected with
     names |-> {}]                      \* identifiers the plugin code resolved

DeadlineTimer(k, t) == [due |-> t + PLUGIN_TIMEOUT_MS, kind |-> "deadline", inv |-> k]
PluginTimer(k, t, d) == [due |-> t + d, kind |-> "plugin", inv |-> k]

\* The body ran from statement `from` and ended as r says: the record of
\* invocation v afterwards.  A body that settles after the race is decided
\* changes nothing in the outcome.
AfterRun(v, r) ==
    LET done == r.end \in {"return", "throw"}
        settles == done /\ v.outcome.kind = "pending"
    IN  [v EXCEPT !.bpc = r.p, !.bend = r.end, !.names = r.names,
                  !.thrown = IF r.end = "throw" THEN r.thrown ELSE @,
                  !.bdoneT = IF done THEN r.t ELSE -1,
                  !.outcome = IF ~settles THEN @
                              ELSE IF r.end = "return" THEN Success(r.value)
                              ELSE CatchBlock(r.thrown),
                  !.retT = IF settles THEN r.t ELSE @]

\* The writes of a run, applied to the objects the body of config k reaches.
WriteBack(k, r) ==
    /\ context' = [context EXCEPT ![k] = r.h.ctx]
    /\ settings' = [settings EXCEPT ![k] = r.h.settings]
    /\ dateObj' = r.h.date
    /\ caps' = r.h.caps

\* From the call to the first suspension: new Function (a SyntaxError goes
\* to the catch block), the call of pluginFunction with its synchronous
\* run of the plugin code, then setTimeout for the deadline (line 127-129)
\* and `await Promise.race`.  A synchronous throw leaves before the
\* deadline timer is set; a loop never comes back.
Execute(hook) ==
    LET src == pluginDefinitions[plugins[i].id]
        k == Len(invs) + 1
        v == NewInvocation(hook, src)
        r == Run(ProgramOf(src, hook), 1, RunState(HeapOf(i), now, {}))
    IN  IF ~Catalogue(src).syntaxOk
        THEN /\ invs' = Append(invs, [v EXCEPT !.bend = "syntax", !.retT = now,
                                        !.outcome = CatchBlock(ErrorValue("SyntaxError"))])
             /\ pc' = IF hook = "calculate" THEN "awaitCalculate" ELSE "awaitRender"
             /\ UNCHANGED <<context, settings, dateObj, caps, timers, now>>
        ELSE /\ WriteBack(i, r)
             /\ now' = r.t
             /\ invs' = Append(invs, AfterRun(v, r))
             /\ timers' =
                  CASE r.end = "return" -> Append(timers, DeadlineTimer(k, r.t))
                    [] r.end = "never" -> Append(timers, DeadlineTimer(k, r.t))
                    [] r.end = "await" ->
                         timers \o <<PluginTimer(k, r.t, r.delay), DeadlineTimer(k, r.t)>>
                    [] OTHER -> timers
             /\ pc' = IF r.end = "loop" THEN "hung"
                      ELSE IF hook = "calculate" THEN "awaitCalculate" ELSE "awaitRender"

\* line 271
executePluginCalculation ==
    /\ pc = "callCalculate"
    /\ Execute("calculate")
    /\ UNCHANGED <<store, plugins, pluginDefinitions, i, calculationResults,
                   renderResults, errors, spin, vin, vout, merged, cin, cout>>

\* line 279
executePluginRender ==
    /\ pc = "callRender"
    /\ Execute("render")
    /\ UNCHANGED <<store, plugins, pluginDefinitions, i, calculationResults,
                   renderResults, errors, spin, vin, vout, merged, cin, cout>>

\* line 272-276 with `else` in place of `else if (calcResult.result)`
FileCalculationStoresAny ==
    /\ pc = "awaitCalculate"
    /\ Current.outcome.kind = "returned"
    /\ IF Current.outcome.error # ""
       THEN /\ errors' = MapSet(errors, plugins[i].id, Current.outcome.error)
            /\ UNCHANGED calculationResults
       ELSE /\ calculationResults' =
                   MapSet(calculationResults, plugins[i].id, Current.outcome.result)
            /\ UNCHANGED errors
    /\ pc' = "callRender"
    /\ UNCHANGED <<store, plugins, pluginDefinitions, i, context, settings, dateObj, caps,
                   renderResults, invs, timers, now, spin, vin, vout, merged, cin, cout>>

\* line 272-276
FileCalculation ==
    /\ pc = "awaitCalculate"
    /\ Current.outcome.kind = "returned"
    /\ IF Current.outcome.error # ""
       THEN /\ errors' = MapSet(errors, plugins[i].id, Current.outcome.error)
            /\ UNCHANGED calculationResults
       ELSE IF Truthy(Current.outcome.result)
       THEN /\ calculationResults' =
                   MapSet(calculationResults, plugins[i].id, Current.outcome.result)
            /\ UNCHANGED errors
       ELSE UNCHANGED <<calculationResults, errors>>
    /\ pc' = "callRender"
    /\ UNCHANGED <<store, plugins, pluginDefinitions, i, context, settings, dateObj, caps,
                   renderResults, invs, timers, now, spin, vin, vout, merged, cin, cout>>

\* line 280-285 with the error written only where the id has none yet
FileRenderKeepsFirst ==
    /\ pc = "awaitRender"
    /\ Current.outcome.kind = "returned"
    /\ IF Current.outcome.error # ""
       THEN /\ errors' = IF MapHas(errors, plugins[i].id) THEN errors
                         ELSE MapSet(errors, plugins[i].id, Current.outcome.error)
            /\ UNCHANGED renderResults
       ELSE IF Truthy(Current.outcome.result)
       THEN /\ renderResults' = MapSet(renderResults, plugins[i].id, Current.outcome.result)
            /\ UNCHANGED errors
       ELSE UNCHANGED <<renderResults, errors>>
    /\ i' = i + 1
    /\ pc' = "loop"
    /\ UNCHANGED <<store, plugins, pluginDefinitions, context, settings, dateObj, caps,
                   calculationResults, invs, timers, now, spin, vin, vout, merged, cin, cout>>

\* line 280-285
FileRender ==
    /\ pc = "awaitRender"
    /\ Current.outcome.kind = "returned"
    /\ IF Current.outcome.error # ""
       THEN /\ errors' = MapSet(errors, plugins[i].id, Current.outcome.error)
            /\ UNCHANGED renderResults
       ELSE IF Truthy(Current.outcome.result)
       THEN /\ renderResults' = MapSet(renderResults, plugins[i].id, Current.outcome.result)
            /\ UNCHANGED errors
       ELSE UNCHANGED <<renderResults, errors>>
    /\ i' = i + 1
    /\ pc' = "loop"
    /\ UNCHANGED <<store, plugins, pluginDefinitions, context, settings, dateObj, caps,
                   calculationResults, invs, timers, now, spin, vin, vout, merged, cin, cout>>

\* line 271 / 279: `await` of a rejected promise throws; processPlugins has
\* no try, so its own promise rejects.
Rejects ==
    /\ pc \in {"awaitCalculate", "awaitRender"}
    /\ Current.outcome.kind = "rejected"
    /\ pc' = "rejected"
    /\ UNCHANGED <<store, plugins, pluginDefinitions, i, context, settings, dateObj, caps,
                   calculationResults, renderResults, errors, invs, timers, now,
                   spin, vin, vout, merged, cin, cout>>

\* The caller of processPlugins hands the calculation results it got to
\* mergePluginResults, with the base context's date.
Merge ==
    /\ pc = "returned"
    /\ ~merged.called
    /\ merged' = mergePluginResults("baseDate", calculationResults)
    /\ UNCHANGED <<store, plugins, pluginDefinitions, pc, i, context, settings, dateObj,
                   caps, calculationResults, renderResults, errors, invs, timers, now,
                   spin, vin, vout, cin, cout>>

(***************************************************************************)
(* The event loop.  A timer callback runs when nothing else is runnable:   *)
(* processPlugins waits for a race that is not decided, or has finished.   *)
(* The timer due first runs first; among equals, the one set first.        *)
(***************************************************************************)
EventLoopIdle ==
    \/ pc \in {"returned", "rejected"}
    \/ pc \in {"awaitCalculate", "awaitRender"} /\ Current.outcome.kind = "pending"

NextTimer ==
    CHOOSE m \in 1..Len(timers) :
        \A n \in 1..Len(timers) :
            \/ timers[m].due < timers[n].due
            \/ timers[m].due = timers[n].due /\ m <= n

Remove(seq, m) == SubSeq(seq, 1, m - 1) \o SubSeq(seq, m + 1, Len(seq))

\* line 128 if the timer's callback wrote the outcome itself instead of
\* rejecting a promise that may be settled already.
DeadlineFiresOverwrites ==
    /\ EventLoopIdle /\ timers # <<>>
    /\ timers[NextTimer].kind = "deadline"
    /\ LET tm == timers[NextTimer]
           t == Max(now, tm.due)
       IN  /\ now' = t
           /\ timers' = Remove(timers, NextTimer)
           /\ invs' = [invs EXCEPT ![tm.inv].outcome = CatchBlock(TimeoutError),
                                   ![tm.inv].retT = t]
    /\ UNCHANGED <<store, plugins, pluginDefinitions, pc, i, context, settings, dateObj,
                   caps, calculationResults, renderResults, errors, spin, vin, vout,
                   merged, cin, cout>>

\* line 128: () => reject(new Error('Plugin execution timeout')).  Nothing
\* cancels the plugin's body, and rejecting a decided race does nothing.
DeadlineFires ==
    /\ EventLoopIdle /\ timers # <<>>
    /\ timers[NextTimer].kind = "deadline"
    /\ LET tm == timers[NextTimer]
           t == Max(now, tm.due)
       IN  /\ now' = t
           /\ timers' = Remove(timers, NextTimer)
           /\ invs' = IF invs[tm.inv].outcome.kind = "pending"
                      THEN [invs EXCEPT ![tm.inv].outcome = CatchBlock(TimeoutError),
                                        ![tm.inv].retT = t]
                      ELSE invs
    /\ UNCHANGED <<store, plugins, pluginDefinitions, pc, i, context, settings, dateObj,
                   caps, calculationResults, renderResults, errors, spin, vin, vout, merged, cin, cout>>

\* A timer the plugin set fires: the body goes on from its await, whether
\* or not its invocation was given up.
PluginTimerFires ==
    /\ EventLoopIdle /\ timers # <<>>
    /\ timers[NextTimer].kind = "plugin"
    /\ LET tm == timers[NextTimer]
           v == invs[tm.inv]
           r == Run(ProgramOf(v.src, v.hook), v.bpc + 1,
                    RunState(HeapOf(v.cfg), Max(now, tm.due), v.names))
       IN  /\ WriteBack(v.cfg, r)
           /\ now' = r.t
           /\ invs' = [invs EXCEPT ![tm.inv] = AfterRun(v, r)]
           /\ timers' = IF r.end = "await"
                        THEN Append(Remove(timers, NextTimer),
                                    PluginTimer(tm.inv, r.t, r.delay))
                        ELSE Remove(timers, NextTimer)
           /\ pc' = IF r.end = "loop" THEN "hung" ELSE pc
    /\ UNCHANGED <<store, plugins, pluginDefinitions, i, calculationResults,
                   renderResults, errors, spin, vin, vout, merged, cin, cout>>

\* The wall clock while a plugin's loop holds the only thread.
Spin ==
    /\ pc = "hung"
    /\ spin < MaxSpin
    /\ spin' = spin + 1
    /\ now' = now + PLUGIN_TIMEOUT_MS
    /\ UNCHANGED <<store, plugins, pluginDefinitions, pc, i, context, settings, dateObj,
                   caps, calculationResults, renderResults, errors, invs, timers,
                   vin, vout, merged, cin, cout>>

Next ==
    \/ \E id \in UserPlugins, code \in Sources : handleSave(id, code)
    \/ \E cfgs \in ConfigLists : processPlugins(cfgs)
    \/ SkipDisabled
    \/ DefinitionNotFound
    \/ CreateContext
    \/ ReturnMaps
    \/ executePluginCalculation
    \/ executePluginRender
    \/ FileCalculation
    \/ FileRender
    \/ Rejects
    \/ Merge
    \/ DeadlineFires
    \/ PluginTimerFires
    \/ Spin

Spec == Init /\ [][Next]_vars

(***************************************************************************)
(* The same program under the scheduling JavaScript guarantees: a          *)
(* continuation that can run does run, and a timer that is due fires once  *)
(* the thread is free.  Nothing obliges the editor's user to save, a       *)
(* caller to call, or a loop that holds the thread to let go of it.        *)
(***************************************************************************)
Scheduled ==
    \/ SkipDisabled
    \/ DefinitionNotFound
    \/ CreateContext
    \/ ReturnMaps
    \/ executePluginCalculation
    \/ executePluginRender
    \/ FileCalculation
    \/ FileRender
    \/ Rejects
    \/ DeadlineFires
    \/ PluginTimerFires

SpecLive == Spec /\ WF_vars(Scheduled)

(***************************************************************************)
(* Batches.  The same program, with longer config lists and an editor      *)
(* whose user writes one of the plugins below.                             *)
(***************************************************************************)
BatchSources ==
    {"good", "dater1", "dater2", "zeroBag", "thrower2", "sleeper", "looper",
     "patcher", "rounder"}

BatchLists == UNION {[1..n -> PluginConfigs] : n \in 0..MaxBatch}

NextBatch ==
    \/ \E id \in UserPlugins, code \in BatchSources : handleSave(id, code)
    \/ \E cfgs \in BatchLists : processPlugins(cfgs)
    \/ SkipDisabled
    \/ DefinitionNotFound
    \/ CreateContext
    \/ ReturnMaps
    \/ executePluginCalculation
    \/ executePluginRender
    \/ FileCalculation
    \/ FileRender
    \/ Rejects
    \/ Merge
    \/ DeadlineFires
    \/ PluginTimerFires
    \/ Spin

SpecBatch == Init /\ [][NextBatch]_vars

(***************************************************************************)
(* createPluginContext applied to the arguments a request may carry.       *)
(***************************************************************************)
ContextArguments ==
    [birthDate : {"1990-01-01", "2000-06-15"}, width : {BaseWidth, BaseHeight},
     height : {BaseWidth, BaseHeight}, viewMode : {"year", "life"},
     settings : {"user", "none"}, timezone : TimeZoneArguments]

InitContext ==
    /\ cin \in ContextArguments
    /\ cout = NotCalled
    /\ store = [id \in UserPlugins \cup SeededPlugins |->
                  IF id \in SeededPlugins THEN "seed" ELSE "good"]
    /\ plugins = <<>> /\ pluginDefinitions = store /\ pc = "idle" /\ i = 0
    /\ context = <<>> /\ settings = <<>> /\ dateObj = "now" /\ caps = "pristine"
    /\ calculationResults = <<>> /\ renderResults = <<>> /\ errors = <<>>
    /\ invs = <<>> /\ timers = <<>> /\ now = 0 /\ spin = 0
    /\ vin = <<>> /\ vout = NoResult /\ merged = NotMerged

CreateContextCall ==
    /\ ~cout.called
    /\ cout' = createPluginContext(cin)
    /\ UNCHANGED <<store, plugins, pluginDefinitions, pc, i, context, settings, dateObj,
                   caps, calculationResults, renderResults, errors, invs, timers, now,
                   spin, vin, vout, merged, cin>>

NextContext == CreateContextCall

SpecContext == InitContext /\ [][NextContext]_vars

(***************************************************************************)
(* validatePluginCode applied to every text of up to MaxLexemes lexemes.   *)
(***************************************************************************)
ValidatorAlphabet ==
    {"eval", "EVAL", "Function", "function", "import", "require", "process",
     "global", "globalThis", "fetch", "XMLHttpRequest", "__dirname", "__filename",
     "calculate", "render", "calculateTotal", "(", ".", "[", " ", "\n", "/*50KB*/"}

Texts == UNION {[1..n -> ValidatorAlphabet] : n \in 0..MaxLexemes}

\* What a text may start with: nothing, or the declaration of an entry point.
Headers ==
    {<<>>, <<"function", " ", "calculate", "(", ")">>,
     <<"function", " ", "render", "(", ")">>}

InitValidate ==
    /\ vin \in {h \o t : h \in Headers, t \in Texts}
    /\ vout = NoResult
    /\ store = [id \in UserPlugins \cup SeededPlugins |->
                  IF id \in SeededPlugins THEN "seed" ELSE "good"]
    /\ plugins = <<>> /\ pluginDefinitions = store /\ pc = "idle" /\ i = 0
    /\ context = <<>> /\ settings = <<>> /\ dateObj = "now" /\ caps = "pristine"
    /\ calculationResults = <<>> /\ renderResults = <<>> /\ errors = <<>>
    /\ invs = <<>> /\ timers = <<>> /\ now = 0 /\ spin = 0
    /\ merged = NotMerged
    /\ cin = NoArguments
    /\ cout = NotCalled

Validate ==
    /\ vout = NoResult
    /\ vout' = validatePluginCode(vin)
    /\ UNCHANGED <<store, plugins, pluginDefinitions, pc, i, context, settings, dateObj,
                   caps, calculationResults, renderResults, errors, invs, timers, now,
                   spin, vin, merged, cin, cout>>

NextValidate == Validate

SpecValidate == InitValidate /\ [][NextValidate]_vars

(***************************************************************************)
(* What an invocation gives when nothing else has touched the objects it   *)
(* reaches: a source whose hooks run to their end without suspending.      *)
(***************************************************************************)
FreshHeap ==
    [ctx |-> [width |-> BaseWidth, height |-> BaseHeight],
     settings |-> "user", date |-> "now", caps |-> "pristine"]

Synchronous(src) ==
    \A hook \in {"calculate", "render"} :
        \A n \in 1..Len(ProgramOf(src, hook)) :
            ProgramOf(src, hook)[n].op \notin {"sleep", "never", "loop"}

WritesNothing(src) ==
    \A hook \in {"calculate", "render"} :
        \A n \in 1..Len(ProgramOf(src, hook)) : ProgramOf(src, hook)[n].op # "mut"

Isolated(src, hook, h) ==
    IF ~Catalogue(src).syntaxOk
    THEN [outcome |-> CatchBlock(ErrorValue("SyntaxError")), h |-> h]
    ELSE LET r == Run(ProgramOf(src, hook), 1, RunState(h, 0, {}))
         IN  [outcome |-> IF r.end = "return" THEN Success(r.value)
                          ELSE CatchBlock(r.thrown),
              h |-> r.h]

\* Whether map m holds for id what outcome o files (nothing, when o is an
\* error or a falsy result).
HoldsResultOf(m, id, o) ==
    IF o.error = "" /\ Truthy(o.result)
    THEN MapHas(m, id) /\ MapGet(m, id) = o.result
    ELSE ~MapHas(m, id)

IsTimeout(v) ==
    v.outcome.kind = "returned" /\ v.outcome.error = "Plugin execution timeout"

(***************************************************************************)
(* The claims.                                                             *)
(***************************************************************************)

\* C1: whatever plugin code throws or rejects with, the executor resolves to
\* {result: null, error: m}, m the thrown message or 'Plugin execution
\* failed'; it never rejects to its caller.
C1_ExecutorNeverRejects ==
    \A k \in 1..Len(invs) :
        LET v == invs[k] IN
        /\ v.outcome.kind # "rejected"
        /\ (v.thrown # NotThrown /\ v.retT = v.bdoneT) =>
              /\ v.outcome.kind = "returned"
              /\ v.outcome.result = Null
              /\ v.outcome.error =
                    IF v.thrown.message # "" THEN v.thrown.message
                    ELSE "Plugin execution failed"

\* C2: whatever the hooks of a plugin P do, processPlugins returns its three
\* maps, and every other plugin Q has the entries it has when it runs
\* undisturbed.  (Q ranges over the configs whose hooks run without
\* suspending and whose id occurs once; the other plugins write to nothing,
\* so that all they can do to Q is fail.)
C2_FailureIsolation ==
    /\ pc # "rejected"
    /\ pc = "returned" =>
         \A j \in 1..Len(plugins) :
            LET id == plugins[j].id IN
            ( /\ plugins[j].enabled
              /\ id \in DOMAIN pluginDefinitions
              /\ Synchronous(pluginDefinitions[id])
              /\ \A n \in 1..Len(plugins) :
                    n # j => /\ plugins[n].id # id
                             /\ plugins[n].id \in DOMAIN pluginDefinitions
                                    => WritesNothing(pluginDefinitions[plugins[n].id]) )
            => LET c == Isolated(pluginDefinitions[id], "calculate", FreshHeap)
                   r == Isolated(pluginDefinitions[id], "render", c.h)
                   e == IF r.outcome.error # "" THEN r.outcome.error ELSE c.outcome.error
               IN  /\ HoldsResultOf(calculationResults, id, c.outcome)
                   /\ HoldsResultOf(renderResults, id, r.outcome)
                   /\ IF e = "" THEN ~MapHas(errors, id)
                      ELSE MapHas(errors, id) /\ MapGet(errors, id) = e

\* C3: the only names plugin source resolves are `context` and the
\* allowlisted parameters; no other identifier of the host is reachable.
C3_OnlyAllowlistedNames ==
    \A k \in 1..Len(invs) : invs[k].names \subseteq FunctionParameters

\* C4: a calculate that has not completed 500 ms after the invocation
\* started makes executePluginCalculation return the timeout error, and it
\* returns when the deadline fires, not when the body would have finished.
C4_TimeoutAtDeadline ==
    \A k \in 1..Len(invs) :
        LET v == invs[k]
            deadline == v.startT + PLUGIN_TIMEOUT_MS
            late == v.bend # "syntax" /\ (v.bdoneT = -1 \/ v.bdoneT > deadline)
        IN  (v.hook = "calculate" /\ late) =>
              /\ v.retT # -1 => IsTimeout(v) /\ v.retT <= deadline
              /\ now > deadline => v.retT # -1

\* C5: once the deadline has fired and the executor has returned the
\* timeout error, the abandoned body takes no further step.
C5_AbandonedBodyStops ==
    [][\A k \in 1..Len(invs) :
          IsTimeout(invs[k]) =>
              /\ invs'[k].bpc = invs[k].bpc
              /\ invs'[k].bend = invs[k].bend]_vars

\* C6: every (plugin, hook) invocation receives a context that shares no
\* mutable part with another invocation's: what it finds in the context is
\* what a freshly built context holds.
C6_FreshContextPerInvocation ==
    \A k \in 1..Len(invs) :
        /\ invs[k].seen.w = BaseWidth
        /\ invs[k].seen.s = "user"
        /\ invs[k].seen.d = "now"

\* C7: when processPlugins has returned, the config list with its settings,
\* the definitions and the base context hold what they held at the call.
C7_InputsUnchanged ==
    pc = "returned" =>
        /\ \A k \in 1..Len(plugins) : settings[k] = "user"
        /\ dateObj = "now"
        /\ pluginDefinitions = store

\* C8: the capability bindings an invocation receives, and the host's own,
\* are the same whatever an earlier invocation did.
C8_CapabilitiesUntouched ==
    /\ caps = "pristine"
    /\ \A k \in 1..Len(invs) : invs[k].seen.c = "pristine"

\* C10: the executor is only invoked on sources validatePluginCode accepts,
\* and the editor stores a plugin's code only after it passed validation.
C10_ExecutedOnlyIfValid ==
    /\ \A k \in 1..Len(invs) : validatePluginCode(Catalogue(invs[k].src).text).valid
    /\ \A id \in UserPlugins : validatePluginCode(Catalogue(store[id]).text).valid

\* The constructs C9 names, as they are written in JavaScript: a call is the
\* word, optional whitespace and "("; a module import is the statement form
\* (the word and whitespace) or the call form import(...); an accessor is a
\* member access on the word, with a dot or with brackets.
DenylistedConstructs ==
    << [word |-> "eval", kind |-> "call", message |-> "eval() is not allowed"],
       [word |-> "function", kind |-> "call",
        message |-> "Function constructor is not allowed"],
       [word |-> "import", kind |-> "import",
        message |-> "import statements are not allowed"],
       [word |-> "require", kind |-> "call", message |-> "require() is not allowed"],
       [word |-> "process", kind |-> "member", message |-> "process access is not allowed"],
       [word |-> "global", kind |-> "member", message |-> "global access is not allowed"],
       [word |-> "fetch", kind |-> "call", message |-> "fetch() is not allowed"],
       [word |-> "xmlhttprequest", kind |-> "bare",
        message |-> "XMLHttpRequest is not allowed"],
       [word |-> "__dirname", kind |-> "bare", message |-> "__dirname is not allowed"],
       [word |-> "__filename", kind |-> "bare", message |-> "__filename is not allowed"] >>

\* The lexeme after position a, whitespace skipped, is one of `marks`.
FollowedBy(code, a, marks) ==
    \E b \in (a + 1)..Len(code) :
        /\ code[b] \in marks
        /\ \A m \in (a + 1)..(b - 1) : code[m] \in Whitespace

HasConstruct(code, c) ==
    \E a \in 1..Len(code) :
        /\ Lower(code[a]) = c.word
        /\ CASE c.kind = "call" -> FollowedBy(code, a, {"("})
             [] c.kind = "import" ->
                  \/ a < Len(code) /\ code[a + 1] \in Whitespace
                  \/ FollowedBy(code, a, {"("})
             [] c.kind = "member" -> FollowedBy(code, a, {".", "["})
             [] OTHER -> TRUE

\* C9: validatePluginCode returns valid=false, with a violation naming the
\* construct, for every source that contains, in any letter case, an eval
\* call, a Function construction, a module import or require form, a
\* process or global accessor, a fetch call, XMLHttpRequest, __dirname or
\* __filename.
C9_DenylistedConstructsRejected ==
    vout # NoResult =>
        \A n \in 1..Len(DenylistedConstructs) :
            HasConstruct(vin, DenylistedConstructs[n]) =>
                /\ ~vout.valid
                /\ \E m \in 1..Len(vout.errors) :
                       vout.errors[m] = DenylistedConstructs[n].message

\* C11: every executor invocation eventually reaches a terminal outcome, and
\* processPlugins, once called, eventually returns, whatever the plugin
\* bodies do.
C11_EventuallyReturns ==
    /\ (pc = "loop") ~> (pc = "returned")
    /\ \A k \in 1..(2 * MaxConfigs) :
          (Len(invs) >= k) ~> (Len(invs) >= k /\ invs[k].outcome.kind = "returned")

\* C12: for a source that does not define the entry point of the hook,
\* whatever its top-level statements do, the executor fails with 'Plugin
\* must export a calculate() function' (resp. render()) and never reports
\* success.  (Stated for the sources that parse.)
C12_MissingEntryPoint ==
    \A k \in 1..Len(invs) :
        LET v == invs[k]
            c == Catalogue(v.src)
            f == IF v.hook = "calculate" THEN c.calculate ELSE c.render
        IN  (c.syntaxOk /\ ~f.defined /\ v.outcome.kind # "pending") =>
              /\ v.outcome.kind = "returned"
              /\ v.outcome.result = Null
              /\ v.outcome.error = MissingEntryMessage(v.hook)

\* The shape line 88 and 145 declare for a result: an object for calculate
\* (PluginCalculationResult), an array of elements for render.
WellShaped(hook, value) ==
    IF hook = "calculate" THEN value.type = "object" ELSE value.type = "array"

\* C13: a value returned by calculate that is not a CalculationResult-shaped
\* object, or by render that is not a list of RenderElement-shaped objects,
\* is never returned as a successful result by the executor and never stored
\* in calculationResults or renderResults.
C13_InvalidResultRefused ==
    /\ \A k \in 1..Len(invs) :
          (invs[k].outcome.kind = "returned" /\ invs[k].outcome.error = "")
              => WellShaped(invs[k].hook, invs[k].outcome.result)
    /\ \A n \in 1..Len(calculationResults) :
          WellShaped("calculate", calculationResults[n].value)
    /\ \A n \in 1..Len(renderResults) :
          WellShaped("render", renderResults[n].value)

\* The calculate invocations, in processing order, whose result specifies a
\* date.
Daters ==
    {k \in 1..Len(invs) :
        /\ invs[k].hook = "calculate"
        /\ invs[k].outcome.kind = "returned" /\ invs[k].outcome.error = ""
        /\ invs[k].outcome.result.currentDate # "none"}

\* C14: for every ordered config list, lists that repeat a plugin id
\* included, mergePluginResults applied to the calculationResults of
\* processPlugins returns as currentDate the override of the last-processed
\* config whose calculation result specifies a date, and baseDate when none
\* does.
C14_LastWriterWins ==
    merged.called =>
        merged.currentDate =
            IF Daters = {} THEN "baseDate"
            ELSE invs[CHOOSE k \in Daters : \A j \in Daters : j <= k].outcome.result.currentDate

\* C15: mergePluginResults returns a pluginData mapping that holds, for
\* every plugin id whose calculation result carries a data bag, exactly that
\* bag, whatever JSON-serializable value the bag is, and no key for any
\* other plugin.
C15_DataBagsKept ==
    merged.called =>
        /\ \A n \in 1..Len(calculationResults) :
              LET e == calculationResults[n] IN
              e.value.data # NoData =>
                  /\ e.key \in DOMAIN merged.pluginData
                  /\ merged.pluginData[e.key] = e.value.data
        /\ \A id \in DOMAIN merged.pluginData :
              \E n \in 1..Len(calculationResults) :
                  /\ calculationResults[n].key = id
                  /\ calculationResults[n].value.data # NoData

\* The render invocations whose result processPlugins stored, in processing
\* order.
StoredRenders ==
    SelectSeq(invs, LAMBDA v : /\ v.hook = "render"
                               /\ v.outcome.kind = "returned"
                               /\ v.outcome.error = ""
                               /\ Truthy(v.outcome.result))

\* C16: the renderResults map returned by processPlugins enumerates the
\* plugins in the order their configs appear in the list, so that its values,
\* one after the other, are the render results in processing order.
C16_RenderOrder ==
    pc = "returned" =>
        /\ Len(renderResults) = Len(StoredRenders)
        /\ \A n \in 1..Len(renderResults) :
              /\ n <= Len(StoredRenders)
              /\ renderResults[n].key = plugins[StoredRenders[n].cfg].id
              /\ renderResults[n].value = StoredRenders[n].outcome.result

\* A hook's invocation succeeded: the executor returned a result that
\* processPlugins files.
Succeeded(v) ==
    v.outcome.kind = "returned" /\ v.outcome.error = "" /\ Truthy(v.outcome.result)
\* A hook's invocation failed: the executor did not return a result.
Failed(v) ==
    \/ v.outcome.kind = "rejected"
    \/ v.outcome.kind = "returned" /\ v.outcome.error # ""

\* C17: for every enabled config that has a definition, processPlugins
\* invokes the render hook whether or not the calculation hook failed, and a
\* plugin whose one hook succeeded and whose other hook failed is both in
\* the results map of the hook that succeeded and in errors.
C17_RenderAfterCalculation ==
    \A k \in 1..Len(invs) :
        LET v == invs[k]
            id == plugins[v.cfg].id
            waiting == k = Len(invs) /\ pc \in {"awaitCalculate", "callRender"}
        IN  (v.hook = "calculate" /\ v.outcome.kind # "pending" /\ ~waiting) =>
              /\ k < Len(invs)
              /\ invs[k + 1].hook = "render"
              /\ invs[k + 1].cfg = v.cfg
              /\ (Succeeded(v) /\ Failed(invs[k + 1]) /\ pc = "returned") =>
                     MapHas(calculationResults, id) /\ MapHas(errors, id)
              /\ (Failed(v) /\ Succeeded(invs[k + 1]) /\ pc = "returned") =>
                     MapHas(renderResults, id) /\ MapHas(errors, id)

\* The ids of the enabled configs the for loop has reached.
EnabledIds == {plugins[j].id : j \in {n \in 1..Len(plugins) : n <= i /\ plugins[n].enabled}}

\* C18: processPlugins never invokes the executor for a config whose enabled
\* flag is false, and such a config contributes no entry to
\* calculationResults, renderResults or errors: every entry is under the id
\* of an enabled config.
C18_DisabledSkipped ==
    /\ \A k \in 1..Len(invs) : plugins[invs[k].cfg].enabled
    /\ \A n \in 1..Len(calculationResults) : calculationResults[n].key \in EnabledIds
    /\ \A n \in 1..Len(renderResults) : renderResults[n].key \in EnabledIds
    /\ \A n \in 1..Len(errors) : errors[n].key \in EnabledIds

\* processPlugins has returned from a list in which a disabled config that
\* has a definition stands before an enabled one whose hooks were invoked.
C18_Witness ==
    /\ pc = "returned"
    /\ \E j, k \in 1..Len(plugins) :
          /\ j < k
          /\ ~plugins[j].enabled /\ plugins[j].id \in DOMAIN pluginDefinitions
          /\ plugins[k].enabled /\ plugins[k].id # plugins[j].id
          /\ \E n \in 1..Len(invs) : invs[n].cfg = k

\* Config k is enabled and its id has no definition.
Unknown(k) == plugins[k].enabled /\ plugins[k].id \notin DOMAIN pluginDefinitions

\* C19: for an enabled config whose id has no definition, processPlugins
\* records 'Plugin definition not found' under that id, invokes no hook for
\* it, adds no result entry for it, and goes on with the next config of the
\* list.
C19_UnknownPluginRecorded ==
    /\ [](\A k \in 1..Len(plugins) :
            Unknown(k) =>
              /\ \A n \in 1..Len(invs) : invs[n].cfg # k
              /\ ~MapHas(calculationResults, plugins[k].id)
              /\ ~MapHas(renderResults, plugins[k].id)
              /\ k < i => /\ MapHas(errors, plugins[k].id)
                          /\ MapGet(errors, plugins[k].id) = "Plugin definition not found")
    /\ [][(pc = "loop" /\ i <= Len(plugins) /\ Unknown(i))
              => (pc' = "loop" /\ i' = i + 1 /\ plugins' = plugins)]_vars

\* processPlugins has returned from a list in which a config without a
\* definition stands before a config whose hooks were invoked.
C19_Witness ==
    /\ pc = "returned"
    /\ \E j, k \in 1..Len(plugins) :
          /\ j < k
          /\ Unknown(j)
          /\ \E n \in 1..Len(invs) : invs[n].cfg = k /\ invs[n].hook = "render"

\* The body of invocation v had come to its end by time t.  (A source that
\* does not parse has no body; a body that waits for something that never
\* settles never runs again.)
BodyOverBy(v, t) ==
    \/ v.bend \in {"syntax", "never"}
    \/ v.bdoneT # -1 /\ v.bdoneT <= t

\* Invocations are taken in list order, calculate before render, and each
\* starts when the one before it has returned its outcome.
InSequence ==
    \A n \in 2..Len(invs) :
        LET a == invs[n - 1]
            b == invs[n]
        IN  /\ a.cfg <= b.cfg
            /\ b.hook = "render" => (a.hook = "calculate" /\ a.cfg = b.cfg)
            /\ b.hook = "calculate" => a.cfg < b.cfg
            /\ a.retT # -1 /\ a.retT <= b.startT

\* C20: processPlugins has at most one (plugin, hook) invocation in progress
\* at any time: plugins are taken in list order, calculate before render, and
\* an invocation starts only after the previous one has returned its outcome
\* and no plugin body of an earlier invocation is still running.
C20_OneInvocationAtATime ==
    /\ InSequence
    /\ \A n \in 2..Len(invs) :
          \A k \in 1..(n - 1) : BodyOverBy(invs[k], invs[n].startT)

\* C21: an executor invocation reaches at most one terminal outcome and
\* never leaves it: the plugin code is never started again, and the outcome
\* returned to the caller is changed neither by a deadline timer that fires
\* after the plugin settled nor by a plugin that settles after the deadline
\* fired.
C21_OneTerminalOutcome ==
    [][\A k \in 1..Len(invs) :
          /\ k <= Len(invs')
          /\ invs'[k].bpc >= invs[k].bpc
          /\ invs[k].outcome.kind # "pending" =>
                /\ invs'[k].outcome = invs[k].outcome
                /\ invs'[k].retT = invs[k].retT]_vars

\* One invocation returned the timeout error and its body came to its end
\* later; the deadline timer of another fired after it had returned a
\* result.
C21_Witness ==
    \E j, k \in 1..Len(invs) :
        /\ IsTimeout(invs[j]) /\ invs[j].bdoneT > invs[j].retT
        /\ invs[k].outcome.kind = "returned" /\ invs[k].outcome.error = ""
        /\ invs[k].bend = "return"
        /\ now >= invs[k].retT + PLUGIN_TIMEOUT_MS
        /\ \A n \in 1..Len(timers) : timers[n].inv # k

\* C22: invoking executePluginRender twice with the same valid plugin source
\* and the same context yields identical results, also when other
\* invocations run in between.
C22_RenderDeterministic ==
    \A j, k \in 1..Len(invs) :
        LET a == invs[j]
            b == invs[k]
        IN  ( /\ j < k
              /\ a.hook = "render" /\ b.hook = "render"
              /\ a.src = b.src
              /\ validatePluginCode(Catalogue(a.src).text).valid
              /\ a.seen.w = b.seen.w /\ a.seen.s = b.seen.s /\ a.seen.d = b.seen.d
              /\ a.outcome.kind # "pending" /\ b.outcome.kind # "pending" )
            => a.outcome = b.outcome

\* The text declares the function `name`: the keyword, whitespace, the name.
Declares(code, name) ==
    \E a \in 1..Len(code) :
        /\ code[a] = "function"
        /\ \E b \in (a + 2)..Len(code) :
              /\ code[b] = name
              /\ \A m \in (a + 1)..(b - 1) : code[m] \in Whitespace

\* C23: validatePluginCode raises 'Plugin must define at least calculate()
\* or render() function' for every source that declares neither a calculate
\* nor a render entry point, and for no source that declares one of them.
C23_EntryPointRequired ==
    vout # NoResult =>
        ( (\E m \in 1..Len(vout.errors) :
              vout.errors[m] = "Plugin must define at least calculate() or render() function")
          <=> (~Declares(vin, "calculate") /\ ~Declares(vin, "render")) )

\* C24: validatePluginCode raises the maximum-length violation for every
\* source longer than 50,000 characters (as String.length counts them) and
\* for no source of 50,000 characters or fewer.
C24_MaxLength ==
    vout # NoResult =>
        ( (\E m \in 1..Len(vout.errors) :
              vout.errors[m] = "Plugin code exceeds maximum length (50KB)")
          <=> CodeLength(vin) > 50000 )

\* The validator was applied to a text of 50,001 characters.
C24_Witness == vout # NoResult /\ CodeLength(vin) = 50001 /\ ~vout.valid

\* What a call without a timezone gives for the same other arguments.
WithoutTimezone(args) == createPluginContext([args EXCEPT !.timezone = "(absent)"])

InvalidTimezone(tz) == tz \notin KnownTimeZones \cup {"(absent)", ""}

\* C25: createPluginContext with an invalid or unrecognized timezone does
\* not throw; the context's currentDate is the non-adjusted current time and
\* birthDate, width, height, viewMode, settings and utils are those of a
\* call without a timezone.
C25_InvalidTimezoneFallsBack ==
    (cout.called /\ InvalidTimezone(cin.timezone)) =>
        /\ ~cout.threw
        /\ cout.context.currentDate = CurrentTime
        /\ \A f \in {"birthDate", "width", "height", "viewMode", "settings", "utils"} :
               cout.context[f] = WithoutTimezone(cin).context[f]
        /\ cout.context.birthDate = cin.birthDate
        /\ cout.context.width = cin.width /\ cout.context.height = cin.height
        /\ cout.context.viewMode = cin.viewMode /\ cout.context.settings = cin.settings

C25_Witness ==
    cout.called /\ cin.timezone = "Mars/Phobos" /\ ~cout.threw
    /\ cout.context.currentDate = CurrentTime

\* The source declares nothing but entry points, and its render is
\*   return [{ type: 'text', x: ctx.width * 0.5, y: ctx.height * 0.5 }]
RendersCentredText(src) ==
    /\ Catalogue(src).syntaxOk
    /\ Catalogue(src).top = <<>>
    /\ Catalogue(src).render = Fn(<<Return("elements")>>)

\* Invocation k is executePluginRender called with width 1170, height 2532.
InvokedWithBaseSize(k) ==
    /\ invs[k].hook = "render"
    /\ invs[k].seen.w = BaseWidth
    /\ context[invs[k].cfg].height = BaseHeight

\* C26: executePluginRender on a source whose render returns one text
\* element at x = width*0.5, y = height*0.5, invoked with width 1170 and
\* height 2532, succeeds with exactly one element, x = 585 and y = 1266.
C26_CentredElement ==
    \A k \in 1..Len(invs) :
        (RendersCentredText(invs[k].src) /\ InvokedWithBaseSize(k)) =>
            /\ invs[k].outcome.kind = "returned"
            /\ invs[k].outcome.error = ""
            /\ invs[k].outcome.result.type = "array"
            /\ invs[k].outcome.result.elems = << [x |-> 585, y |-> 1266] >>

C26_Witness ==
    \E k \in 1..Len(invs) :
        /\ RendersCentredText(invs[k].src) /\ InvokedWithBaseSize(k)
        /\ invs[k].outcome.result.elems = << [x |-> 585, y |-> 1266] >>

\* Invocation k ended with the executor's missing-entry-point error.
FailsForMissingEntry(k) ==
    /\ invs[k].outcome.kind = "returned"
    /\ invs[k].outcome.error = MissingEntryMessage(invs[k].hook)

\* C27: for every source validatePluginCode accepts, at least one of
\* executePluginCalculation and executePluginRender does not fail with the
\* 'Plugin must export a ...() function' error.
C27_ValidatorExecutorAgree ==
    \A j, k \in 1..Len(invs) :
        ( /\ invs[j].cfg = invs[k].cfg
          /\ invs[j].hook = "calculate" /\ invs[k].hook = "render"
          /\ validatePluginCode(Catalogue(invs[j].src).text).valid )
        => ~(FailsForMissingEntry(j) /\ FailsForMissingEntry(k))

\* No key occurs twice in the map.
UniqueKeys(m) == \A a, b \in 1..Len(m) : m[a].key = m[b].key => a = b

\* The executor returned an error for the invocation.
HookFailed(v) == v.outcome.kind = "returned" /\ v.outcome.error # ""

\* processPlugins has just filed the render outcome of a config.
RenderFiled == pc = "awaitRender" /\ pc' = "loop"

\* C28: the errors map holds at most one message per plugin id; once both
\* hooks of a config are filed, the entry of its id is the render hook's
\* message when render failed (also when calculation failed before it), and
\* the calculation hook's message when only calculation failed.
C28_OneMessagePerId ==
    [][ /\ UniqueKeys(errors')
        /\ RenderFiled =>
              LET r == invs[Len(invs)]
                  c == invs[Len(invs) - 1]
                  id == plugins[i].id
              IN  /\ r.hook = "render" /\ c.hook = "calculate"
                  /\ r.cfg = i /\ c.cfg = i
                  /\ HookFailed(r) =>
                        MapHas(errors', id) /\ MapGet(errors', id) = r.outcome.error
                  /\ (HookFailed(c) /\ ~HookFailed(r)) =>
                        MapHas(errors', id) /\ MapGet(errors', id) = c.outcome.error
      ]_vars

\* Both hooks of a config failed with different messages and the entry is
\* the render hook's.
C28_Witness ==
    /\ pc = "loop" /\ Len(invs) >= 2
    /\ LET r == invs[Len(invs)]
           c == invs[Len(invs) - 1]
       IN  /\ r.hook = "render" /\ c.hook = "calculate" /\ r.cfg = c.cfg
           /\ HookFailed(r) /\ HookFailed(c)
           /\ r.outcome.error # c.outcome.error
           /\ MapGet(errors, plugins[r.cfg].id) = r.outcome.error

\* The executor returns the outcome of invocation k in this step.
Returns(k) ==
    /\ k \in 1..Len(invs')
    /\ invs'[k].outcome.kind = "returned"
    /\ (k > Len(invs) \/ invs[k].outcome.kind = "pending")

\* processPlugins files the outcome it awaited.
Files == pc \in {"awaitCalculate", "awaitRender"} /\ pc' \in {"callRender", "loop"}

\* C29: an outcome returned by executePluginCalculation or
\* executePluginRender never has result and error both non-null: an error
\* comes with result = null, an outcome that is not the plugin's returned
\* value carries a non-empty error, and processPlugins files no invocation
\* both as a result and as an error.
C29_ResultXorError ==
    [][ /\ \A k \in 1..Len(invs') :
              invs'[k].outcome.kind = "returned" =>
                  /\ invs'[k].outcome.error # "" => invs'[k].outcome.result = Null
                  /\ Returns(k) =>
                        (invs'[k].bend = "return" <=> invs'[k].outcome.error = "")
        /\ Files => ~( /\ errors' # errors
                       /\ \/ calculationResults' # calculationResults
                          \/ renderResults' # renderResults )
      ]_vars

\* A thrown value without a message was returned as the fallback error and
\* filed as an error only.
C29_Witness ==
    /\ pc = "loop" /\ Len(invs) >= 1
    /\ LET v == invs[Len(invs)]
       IN  /\ v.bend = "throw" /\ v.thrown.message = ""
           /\ v.outcome = [kind |-> "returned", result |-> Null,
                           error |-> "Plugin execution failed"]
           /\ MapGet(errors, plugins[v.cfg].id) = "Plugin execution failed"
           /\ ~MapHas(renderResults, plugins[v.cfg].id)

\* Entry e of the map a hook's results go to is a truthy value that an
\* invocation of that hook returned without error for an enabled config of
\* e's id, and the id has a definition.
ProperEntry(e, hook) ==
    /\ Truthy(e.value)
    /\ e.value \notin {Null, Undefined, Number0}
    /\ e.key \in DOMAIN pluginDefinitions
    /\ \E k \in 1..Len(invs) :
          /\ invs[k].hook = hook
          /\ invs[k].cfg \in 1..Len(plugins)
          /\ plugins[invs[k].cfg].enabled
          /\ plugins[invs[k].cfg].id = e.key
          /\ invs[k].outcome.kind = "returned"
          /\ invs[k].outcome.error = ""
          /\ invs[k].outcome.result = e.value

OnlyProperEntries ==
    /\ \A n \in 1..Len(calculationResults) : ProperEntry(calculationResults[n], "calculate")
    /\ \A n \in 1..Len(renderResults) : ProperEntry(renderResults[n], "render")

\* The hook awaited returned null, undefined or 0 without error.
ReturnedFalsy ==
    /\ Current.outcome.kind = "returned"
    /\ Current.outcome.error = ""
    /\ ~Truthy(Current.outcome.result)

\* C30: calculationResults and renderResults hold only ids of enabled
\* configs that have a definition and whose hook returned without error,
\* never a null or undefined value; a hook that returns a falsy value
\* without error adds an entry to no map.
C30_OnlyTruthyResults ==
    [][ /\ OnlyProperEntries'
        /\ (Files /\ ReturnedFalsy) =>
              UNCHANGED <<calculationResults, renderResults, errors>>
      ]_vars

\* A run is over in which hooks returned null, undefined or 0 without
\* error, and their plugin has no entry for that hook.
C30_Witness ==
    /\ pc = "returned"
    /\ \E k \in 1..Len(invs) :
          /\ invs[k].outcome.kind = "returned" /\ invs[k].outcome.error = ""
          /\ invs[k].outcome.result \in {Null, Undefined, Number0}
          /\ ~MapHas(IF invs[k].hook = "calculate" THEN calculationResults
                     ELSE renderResults, plugins[invs[k].cfg].id)
          /\ ~MapHas(errors, plugins[invs[k].cfg].id)

====
